---- MODULE Spec2Model ----
(***************************************************************************)
(* duckmcp: a DuckDB MCP server.  The model covers the Connection Manager  *)
(* (src/src/database/connection.ts), the Path/Source Loader                *)
(* (src/src/database/loader.ts), the tool dispatcher and the process       *)
(* lifecycle (src/src/index.ts).                                           *)
(*                                                                         *)
(* One action is one turn of the Node.js event loop: a call or an engine   *)
(* callback together with every promise continuation that runs before the *)
(* next suspension on I/O.  The embedded engine and the file system are    *)
(* the environment: their outcomes are nondeterministic.                   *)
(*                                                                         *)
(* Strings are sequences of tokens; concatenation is \o.                   *)
(***************************************************************************)
EXTENDS Integers, Sequences, FiniteSets, TLC

\* ------------------------------------------------------------------ bounds
MaxSessions == 2        \* engine sessions one manager may open in a run
MaxPending == 2         \* engine calls in flight at once

\* ------------------------------------------------------------- vocabulary
Null == 0
NoErr == "ok"
EngineMsgs == {"m1", "m2"}          \* native error messages of the engine
NoStmt == [verb |-> "none"]
NoRows == <<>>
EngineRows == {<<>>, <<"r1">>}      \* row sets the engine may return
MemoryPath == <<":memory:">>

VARIABLES
    config,     \* DuckDBConnection.config / DataLoader.config
    db,         \* DuckDBConnection.db: Null or the index of a session
    sessions,   \* every Database object constructed, in order
    pending,    \* engine calls whose callback has not run yet
    ret,        \* what the last call of a direct caller of the manager settled to
    main,       \* position of main() ("harness": the manager is driven directly)
    argv,       \* the <path> argument of the command line
    exit,       \* "running", or the exit status of the process
    initError,  \* the stage whose failure the catch of initialize() handled
    ld,         \* DataLoader.loadDirectoryData: position, extension, pattern, files
    log,        \* per extension: patterns globbed, files found, statements issued
    tool,       \* the tool calls the dispatcher is serving, in the order of their queries
    resp,       \* what the dispatcher returned for the last tool call
    sigs,       \* SIGINT/SIGTERM deliveries so far
    dir,        \* the file system under the target: per extension, the files there
    fn,         \* the function a direct caller last applied: name, arguments, result
    held,       \* the config objects getConfig() has returned to a direct caller
    prev,       \* what an earlier loadData() on this session left: its log, the views
    calls       \* tool calls the transport has delivered so far

conn == <<config, db, sessions, pending>>
srv == <<argv, exit, initError, ld, log, tool, resp, sigs, dir, fn, held, prev, calls>>
vars == <<config, db, sessions, pending, ret, main,
          argv, exit, initError, ld, log, tool, resp, sigs, dir, fn, held, prev, calls>>

\* ------------------------------------------------------ connection manager
DbPath(cfg) == IF cfg.isDirectory THEN MemoryPath ELSE cfg.path

AccessMode_AlwaysReadOnly(cfg) == "read_only"

AccessMode(cfg) == IF cfg.isDirectory THEN "read_write" ELSE "read_only"

NewDatabase(cfg) ==
    [path |-> DbPath(cfg), mode |-> AccessMode(cfg), state |-> "opening", views |-> {}]

Resolved(rows) == [state |-> "resolved", msg |-> <<>>, rows |-> rows]
Rejected(msg) == [state |-> "rejected", msg |-> msg, rows |-> NoRows]

\* connect(): constructs the Database, stores it in this.db, suspends.
connect(cfg, who) ==
    /\ sessions' = Append(sessions, NewDatabase(cfg))
    /\ db' = Len(sessions) + 1
    /\ pending' = Append(pending,
           [kind |-> "open", sess |-> Len(sessions) + 1, who |-> who, stmt |-> NoStmt])

\* An engine call on this.db, queued behind those in pend.
Call(pend, kind, stmt, who) ==
    Append(pend, [kind |-> kind, sess |-> db, who |-> who, stmt |-> stmt])

ConnectSettled_Throws(err) ==
    IF err # NoErr THEN [state |-> "thrown", msg |-> <<err>>, rows |-> <<>>]
    ELSE [state |-> "resolved", msg |-> <<>>, rows |-> <<>>]

\* The callback of new Database(): reject on an error, resolve otherwise.
ConnectSettled(err) ==
    IF err # NoErr THEN Rejected(<<"Failed to connect to DuckDB: ", err>>)
    ELSE Resolved(NoRows)

NotConnected == Rejected(<<"Database not connected">>)

\* query(): this.db.all(sql, cb)
query(pend, stmt, who) == Call(pend, "all", stmt, who)

QuerySettled_DropsMessage(err, rows) ==
    IF err # NoErr THEN [state |-> "rejected", msg |-> <<"Query failed">>, rows |-> <<>>]
    ELSE [state |-> "resolved", msg |-> <<>>, rows |-> rows]

QuerySettled(err, rows) ==
    IF err # NoErr THEN Rejected(<<"Query failed: ", err>>) ELSE Resolved(rows)

\* execute(): this.db.run(sql, cb)
execute(pend, stmt, who) == Call(pend, "run", stmt, who)

ExecuteSettled(err) ==
    IF err # NoErr THEN Rejected(<<"Execution failed: ", err>>) ELSE Resolved(NoRows)

\* close() with no Database: returns at once.
CloseWhenNull_Throws == [state |-> "rejected", msg |-> <<"Database not connected">>, rows |-> <<>>]

CloseWhenNull == Resolved(NoRows)

\* close(): this.db.close(cb)
close(pend, who) == Call(pend, "close", NoStmt, who)

CloseSettled(err) ==
    IF err # NoErr THEN Rejected(<<"Failed to close database: ", err>>)
    ELSE Resolved(NoRows)

\* The close callback clears this.db on success, whatever it then refers to.
DbAfterClose(err) == IF err = NoErr THEN Null ELSE db

isConnected == db # Null

\* ------------------------------------------------------------- the engine
IsWrite(stmt) == stmt.verb \in {"CREATE VIEW", "CREATE OR REPLACE VIEW", "WRITE"}

\* The table a write statement of a client creates (CREATE TABLE t ...).
UserTable == <<"t">>
TableDef == [reader |-> "none", form |-> "table", arg |-> <<>>, opts |-> {}]

\* Errors the engine may hand to the callback of a pending call (NoErr: success).
EngineOutcomes(op) ==
    LET s == sessions[op.sess] IN
    IF op.kind = "open" THEN {NoErr} \cup EngineMsgs
    ELSE IF s.state = "opening" THEN {}
    ELSE IF op.kind = "close" THEN {NoErr} \cup EngineMsgs
    ELSE IF s.state # "open" THEN EngineMsgs
    ELSE IF IsWrite(op.stmt) /\ s.mode = "read_only" THEN EngineMsgs
    ELSE IF op.stmt.verb = "CREATE VIEW" /\ \E v \in s.views : v.name = op.stmt.name
         THEN EngineMsgs
    ELSE {NoErr} \cup EngineMsgs

\* The session after the engine has served the call with outcome err.
SessionAfter(op, err) ==
    LET s == sessions[op.sess] IN
    IF err # NoErr THEN
        IF op.kind = "open" THEN [s EXCEPT !.state = "failed"] ELSE s
    ELSE IF op.kind = "open" THEN [s EXCEPT !.state = "open"]
    ELSE IF op.kind = "close" THEN [s EXCEPT !.state = "closed"]
    ELSE IF op.stmt.verb = "CREATE VIEW"
         THEN [s EXCEPT !.views = @ \cup {[name |-> op.stmt.name, def |-> op.stmt.src]}]
    ELSE IF op.stmt.verb = "CREATE OR REPLACE VIEW"
         THEN [s EXCEPT !.views = {v \in @ : v.name # op.stmt.name}
                                    \cup {[name |-> op.stmt.name, def |-> op.stmt.src]}]
    ELSE IF op.stmt.verb = "WRITE"
         THEN [s EXCEPT !.views = @ \cup {[name |-> UserTable, def |-> TableDef]}]
    ELSE s

Remove(seq, i) == SubSeq(seq, 1, i - 1) \o SubSeq(seq, i + 1, Len(seq))

\* The engine serves pending[i] with outcome err.
Served(i, err) ==
    /\ err \in EngineOutcomes(pending[i])
    /\ sessions' = [sessions EXCEPT ![pending[i].sess] = SessionAfter(pending[i], err)]

\* --------------------------------------------------------- path utilities
\* Paths and names are sequences of one-character strings.
UpperChars == <<"A","B","C","D","E","F","G","H","I","J","K","L","M",
                "N","O","P","Q","R","S","T","U","V","W","X","Y","Z">>
LowerChars == <<"a","b","c","d","e","f","g","h","i","j","k","l","m",
                "n","o","p","q","r","s","t","u","v","w","x","y","z">>
DigitChars == <<"0","1","2","3","4","5","6","7","8","9">>

Range(f) == {f[i] : i \in DOMAIN f}

\* String.prototype.toLowerCase on the model's alphabet
toLowerCase(str) ==
    [i \in 1..Len(str) |->
        IF str[i] \in Range(UpperChars)
        THEN LowerChars[CHOOSE k \in 1..Len(UpperChars) : UpperChars[k] = str[i]]
        ELSE str[i]]

RECURSIVE StripTrailingSlashes(_)
StripTrailingSlashes(p) ==
    IF Len(p) > 1 /\ p[Len(p)] = "/"
    THEN StripTrailingSlashes(SubSeq(p, 1, Len(p) - 1))
    ELSE p

LastIndexOf(p, c) ==
    LET S == {i \in 1..Len(p) : p[i] = c}
    IN IF S = {} THEN 0 ELSE CHOOSE i \in S : \A j \in S : j <= i

\* path.basename (POSIX)
basename(p) ==
    LET q == StripTrailingSlashes(p)
    IN IF q = <<"/">> THEN <<>> ELSE SubSeq(q, LastIndexOf(q, "/") + 1, Len(q))

\* path.extname (POSIX): from the last dot of the base name, unless it leads it
extname(p) ==
    LET b == basename(p)
        d == LastIndexOf(b, ".")
    IN IF d <= 1 \/ b = <<".", ".">> THEN <<>> ELSE SubSeq(b, d, Len(b))

\* The segments of a path: what stands between its slashes
RECURSIVE Split(_)
Split(p) ==
    LET S == {i \in 1..Len(p) : p[i] = "/"}
    IN IF S = {} THEN <<p>>
       ELSE LET i == CHOOSE x \in S : \A y \in S : x <= y
            IN <<SubSeq(p, 1, i - 1)>> \o Split(SubSeq(p, i + 1, Len(p)))

\* normalizeString of path.normalize: "." and empty segments go, ".." takes
\* the segment before it away (above the start of a relative path it stays)
RECURSIVE Resolve(_, _, _)
Resolve(segs, out, isAbsolute) ==
    IF segs = <<>> THEN out
    ELSE LET seg == Head(segs)
         IN IF seg = <<>> \/ seg = <<".">> THEN Resolve(Tail(segs), out, isAbsolute)
            ELSE IF seg = <<".", ".">>
            THEN IF out # <<>> /\ out[Len(out)] # <<".", ".">>
                 THEN Resolve(Tail(segs), SubSeq(out, 1, Len(out) - 1), isAbsolute)
                 ELSE IF isAbsolute THEN Resolve(Tail(segs), out, isAbsolute)
                 ELSE Resolve(Tail(segs), Append(out, seg), isAbsolute)
            ELSE Resolve(Tail(segs), Append(out, seg), isAbsolute)

RECURSIVE JoinSegs(_)
JoinSegs(segs) ==
    IF segs = <<>> THEN <<>>
    ELSE IF Len(segs) = 1 THEN segs[1]
    ELSE segs[1] \o <<"/">> \o JoinSegs(Tail(segs))

\* path.normalize (POSIX)
normalize(p) ==
    IF p = <<>> THEN <<".">>
    ELSE LET isAbsolute == p[1] = "/"
             trailingSeparator == p[Len(p)] = "/"
             body == JoinSegs(Resolve(Split(p), <<>>, isAbsolute))
         IN IF body = <<>>
            THEN IF isAbsolute THEN <<"/">>
                 ELSE IF trailingSeparator THEN <<".", "/">> ELSE <<".">>
            ELSE (IF isAbsolute THEN <<"/">> ELSE <<>>) \o body
                 \o (IF trailingSeparator THEN <<"/">> ELSE <<>>)

\* path.join(a, b): the non-empty arguments joined by a slash, normalized
JoinPath(a, b) ==
    IF a = <<>> THEN normalize(b)
    ELSE IF b = <<>> THEN normalize(a)
    ELSE normalize(a \o <<"/">> \o b)

\* ------------------------------------------------------------------- loader
MaxFiles == 2           \* files of one extension a glob may find

csv == <<"c","s","v">>
parquet == <<"p","a","r","q","u","e","t">>
json == <<"j","s","o","n">>
jsonl == <<"j","s","o","n","l">>
supportedExtensions == <<csv, parquet, json, jsonl>>
NumExts == Len(supportedExtensions)

\* loadDirectoryData globs two patterns per extension: *.ext and **/*.ext
patterns(dataPath, ext) ==
    << JoinPath(dataPath, <<"*", ".">> \o ext),
       JoinPath(dataPath, <<"*", "*", "/", "*", ".">> \o ext) >>

\* File 1 of an extension lies in the target directory itself, the others below.
TopFiles == {1}
NoFiles == [k \in 1..NumExts |-> {}]

\* What the glob of pattern pat (1: *.ext, 2: **/*.ext) for extension k may
\* settle to: a failure, or the files of the directory the pattern matches.
GlobOutcomes(k, pat) ==
    {[ok |-> FALSE, files |-> {}],
     [ok |-> TRUE, files |-> IF pat = 1 THEN dir[k] \cap TopFiles ELSE dir[k]]}

\* The subdirectory the files below the target directory lie in.
SubDir == <<"s", "u", "b">>

\* The path glob reports for file n of an extension.
FilePath(dataPath, ext, n) ==
    IF n \in TopFiles THEN JoinPath(dataPath, <<"f", ToString(n), ".">> \o ext)
    ELSE JoinPath(dataPath, SubDir \o <<"/", "f", ToString(n), ".">> \o ext)

RECURSIVE SetToSeq(_)
SetToSeq(S) ==
    IF S = {} THEN <<>>
    ELSE LET m == CHOOSE x \in S : \A y \in S : x <= y
         IN <<m>> \o SetToSeq(S \ {m})

\* [...new Set(files)]: first occurrences, in order
RECURSIVE Dedup(_)
Dedup(files) ==
    IF files = <<>> THEN <<>>
    ELSE LET init == Dedup(SubSeq(files, 1, Len(files) - 1))
             last == files[Len(files)]
         IN IF last \in Range(init) THEN init ELSE Append(init, last)

SqlSafeChars == Range(UpperChars) \cup Range(LowerChars) \cup Range(DigitChars) \cup {"_"}

generateTableName_NoSanitize(basePath, fileType) ==
    basename(basePath) \o <<"_">> \o fileType

generateTableName(basePath, fileType) ==
    LET baseName == basename(basePath)
        safeName == [i \in 1..Len(baseName) |->
                        IF baseName[i] \in SqlSafeChars THEN baseName[i] ELSE "_"]
    IN safeName \o <<"_">> \o fileType

Reader(fileType) ==
    IF fileType = csv THEN "read_csv"
    ELSE IF fileType = parquet THEN "read_parquet"
    ELSE "read_json"

BulkSql_OrReplace(fileType, basePath) ==
    [verb |-> "CREATE OR REPLACE VIEW",
     name |-> generateTableName(basePath, fileType),
     src  |-> [reader |-> Reader(fileType), form |-> "glob",
               arg |-> <<JoinPath(basePath, <<"*", "*", "/", "*", ".">> \o fileType)>>,
               opts |-> IF fileType = parquet THEN {"hive_partitioning"}
                        ELSE {"auto_detect", "hive_partitioning"}]]

\* createTableForFileType: the bulk statement over the recursive glob pattern
BulkSql(fileType, basePath) ==
    [verb |-> "CREATE VIEW",
     name |-> generateTableName(basePath, fileType),
     src  |-> [reader |-> Reader(fileType), form |-> "glob",
               arg |-> <<JoinPath(basePath, <<"*", "*", "/", "*", ".">> \o fileType)>>,
               opts |-> IF fileType = parquet THEN {"hive_partitioning"}
                        ELSE {"auto_detect", "hive_partitioning"}]]

\* createTableForIndividualFiles: one file, or the explicit list
FallbackSql(fileType, basePath, files) ==
    [verb |-> "CREATE VIEW",
     name |-> generateTableName(basePath, fileType),
     src  |-> [reader |-> Reader(fileType),
               form |-> IF Len(files) = 1 THEN "file" ELSE "list",
               arg |-> [i \in 1..Len(files) |-> FilePath(basePath, fileType, files[i])],
               opts |-> IF fileType = parquet THEN {} ELSE {"auto_detect"}]]

LoaderIdle == [pc |-> "idle", ext |-> 0, pat |-> 0, files |-> <<>>]
LoaderDone == [pc |-> "done", ext |-> 0, pat |-> 0, files |-> <<>>]
NoLog == [k \in 1..NumExts |-> [globs |-> 0, found |-> 0, stmts |-> <<>>]]
NoPrev == [again |-> FALSE, log |-> NoLog, views |-> {}]

Issued(lg, k, form) == [lg EXCEPT ![k].stmts = Append(@, [form |-> form, res |-> "pending"])]
Settled(lg, k, res) == [lg EXCEPT ![k].stmts[Len(lg[k].stmts)].res = res]

\* The for loop of loadDirectoryData leaves extension k: the next extension's
\* first glob starts, or loadDirectoryData returns.
NextExt(k, lg) ==
    /\ ld' = IF k < NumExts
             THEN [pc |-> "glob", ext |-> k + 1, pat |-> 1, files |-> <<>>]
             ELSE LoaderDone
    /\ log' = lg

LoaderFailed == [pc |-> "failed", ext |-> 0, pat |-> 0, files |-> <<>>]

ExtFailed_Rethrows(k, lg) == ld' = LoaderFailed /\ log' = lg

\* An error left createTableForFileType: the catch of the loop body logs it.
ExtFailed(k, lg) == NextExt(k, lg)

\* loadData(): nothing for a database file, else loadDirectoryData()
loadData ==
    /\ ld' = IF ~config.isDirectory THEN LoaderDone
             ELSE [pc |-> "glob", ext |-> 1, pat |-> 1, files |-> <<>>]
    /\ log' = log

\* createTableForIndividualFiles(tableName, fileType, files), from pend
createTableForIndividualFiles(k, files, lg, pend) ==
    IF db = Null
    THEN ExtFailed(k, lg) /\ pending' = pend
    ELSE /\ pending' = execute(pend, FallbackSql(supportedExtensions[k], config.path, files),
                               "loader")
         /\ ld' = [ld EXCEPT !.pc = "fallback", !.files = files]
         /\ log' = Issued(lg, k, IF Len(files) = 1 THEN "file" ELSE "list")

createTableForFileType_NoAwait(k, files, lg, pend) ==
    /\ pending' = execute(pend, BulkSql(supportedExtensions[k], config.path), "loader")
    /\ NextExt(k, Issued(lg, k, "glob"))

\* createTableForFileType(ext, dataPath, files), from pend
createTableForFileType(k, files, lg, pend) ==
    IF db = Null
    THEN createTableForIndividualFiles(k, files, lg, pend)
    ELSE /\ pending' = execute(pend, BulkSql(supportedExtensions[k], config.path), "loader")
         /\ ld' = [ld EXCEPT !.pc = "bulk", !.files = files]
         /\ log' = Issued(lg, k, "glob")

GlobSettled_NoEmptyCheck(out) ==
    LET k == ld.ext
        files == IF out.ok THEN ld.files \o SetToSeq(out.files) ELSE ld.files
        lg == [log EXCEPT ![k].globs = @ + 1]
    IN IF ld.pat < 2
       THEN /\ ld' = [ld EXCEPT !.pat = @ + 1, !.files = files]
            /\ log' = lg
            /\ pending' = pending
       ELSE createTableForFileType(k, Dedup(files),
                                   [lg EXCEPT ![k].found = Len(Dedup(files))], pending)

\* A glob call of loadDirectoryData settles.
GlobSettled(out) ==
    LET k == ld.ext
        files == IF out.ok THEN ld.files \o SetToSeq(out.files) ELSE ld.files
        lg == [log EXCEPT ![k].globs = @ + 1]
    IN IF ld.pat < Len(patterns(config.path, supportedExtensions[k]))
       THEN /\ ld' = [ld EXCEPT !.pat = @ + 1, !.files = files]
            /\ log' = lg
            /\ pending' = pending
       ELSE LET uniq == Dedup(files)
                lg2 == [lg EXCEPT ![k].found = Len(uniq)]
            IN IF Len(uniq) > 0
               THEN createTableForFileType(k, uniq, lg2, pending)
               ELSE NextExt(k, lg2) /\ pending' = pending

LoaderExecuteSettled_NoFallback(r, pend) ==
    /\ NextExt(ld.ext, Settled(log, ld.ext, IF r.state = "resolved" THEN "ok" ELSE "err"))
    /\ pending' = pend

\* The execute() of the bulk or of the fallback statement settles to r; pend is
\* what is still in flight.
LoaderExecuteSettled(r, pend) ==
    LET k == ld.ext
        lg == Settled(log, k, IF r.state = "resolved" THEN "ok" ELSE "err")
    IN IF r.state = "resolved" THEN NextExt(k, lg) /\ pending' = pend
       ELSE IF ld.pc = "bulk" THEN createTableForIndividualFiles(k, ld.files, lg, pend)
       ELSE ExtFailed(k, lg) /\ pending' = pend

\* ------------------------------------------------------------------ harness
\* Configs a caller constructs the manager with (the tests build them by hand).
HarnessConfigs ==
    {[path |-> <<"d">>, isDirectory |-> TRUE, readonly |-> TRUE],
     [path |-> <<"f", ".", "d", "b">>, isDirectory |-> FALSE, readonly |-> TRUE],
     [path |-> <<"f", ".", "d", "b">>, isDirectory |-> FALSE, readonly |-> FALSE]}

\* Statements a caller hands to query() and to execute().
QueryStmts == {[verb |-> "SELECT"]}
ExecuteStmts == {[verb |-> "WRITE"]}

\* eng: what the engine handed to the callback ("none": the engine was not called).
Returned(op, r, eng) == [op |-> op, state |-> r.state, msg |-> r.msg, rows |-> r.rows,
                         eng |-> eng, tick |-> 1 - ret.tick]

TestConnect ==
    /\ main = "harness"
    /\ Len(sessions) < MaxSessions
    /\ Len(pending) < MaxPending
    /\ connect(config, "test")
    /\ UNCHANGED <<config, ret, main, srv>>

TestQuery ==
    /\ main = "harness"
    /\ \E stmt \in QueryStmts :
        IF db = Null
        THEN ret' = Returned("query", NotConnected, "none") /\ UNCHANGED <<conn, main, srv>>
        ELSE /\ Len(pending) < MaxPending
             /\ pending' = query(pending, stmt, "test")
             /\ UNCHANGED <<config, db, sessions, ret, main, srv>>

TestExecute ==
    /\ main = "harness"
    /\ \E stmt \in ExecuteStmts :
        IF db = Null
        THEN ret' = Returned("execute", NotConnected, "none") /\ UNCHANGED <<conn, main, srv>>
        ELSE /\ Len(pending) < MaxPending
             /\ pending' = execute(pending, stmt, "test")
             /\ UNCHANGED <<config, db, sessions, ret, main, srv>>

TestClose ==
    /\ main = "harness"
    /\ IF db = Null
       THEN ret' = Returned("close", CloseWhenNull, "none") /\ UNCHANGED <<conn, main, srv>>
       ELSE /\ Len(pending) < MaxPending
            /\ pending' = close(pending, "test")
            /\ UNCHANGED <<config, db, sessions, ret, main, srv>>

TestOpenCallback ==
    \E i \in 1..Len(pending) : \E err \in {NoErr} \cup EngineMsgs :
        /\ pending[i].who = "test" /\ pending[i].kind = "open"
        /\ Served(i, err)
        /\ pending' = Remove(pending, i)
        /\ ret' = Returned("connect", ConnectSettled(err), err)
        /\ UNCHANGED <<config, db, main, srv>>

TestAllCallback ==
    \E i \in 1..Len(pending) : \E err \in {NoErr} \cup EngineMsgs : \E rows \in EngineRows :
        /\ pending[i].who = "test" /\ pending[i].kind = "all"
        /\ Served(i, err)
        /\ pending' = Remove(pending, i)
        /\ ret' = Returned("query", QuerySettled(err, rows), err)
        /\ UNCHANGED <<config, db, main, srv>>

TestRunCallback ==
    \E i \in 1..Len(pending) : \E err \in {NoErr} \cup EngineMsgs :
        /\ pending[i].who = "test" /\ pending[i].kind = "run"
        /\ Served(i, err)
        /\ pending' = Remove(pending, i)
        /\ ret' = Returned("execute", ExecuteSettled(err), err)
        /\ UNCHANGED <<config, db, main, srv>>

TestCloseCallback ==
    \E i \in 1..Len(pending) : \E err \in {NoErr} \cup EngineMsgs :
        /\ pending[i].who = "test" /\ pending[i].kind = "close"
        /\ Served(i, err)
        /\ pending' = Remove(pending, i)
        /\ db' = DbAfterClose(err)
        /\ ret' = Returned("close", CloseSettled(err), err)
        /\ UNCHANGED <<config, main, srv>>

NoTool == <<>>
NoResp == [kind |-> "none"]

NoCall == [name |-> "none"]

NoReturn == [op |-> "none", state |-> "none", msg |-> <<>>, rows |-> NoRows,
             eng |-> "none", tick |-> 0]

Init ==
    /\ config \in HarnessConfigs
    /\ db = Null
    /\ sessions = <<>>
    /\ pending = <<>>
    /\ ret = NoReturn
    /\ main = "harness"
    /\ argv = <<>>
    /\ exit = "running"
    /\ initError = "none"
    /\ ld = LoaderIdle
    /\ log = NoLog
    /\ tool = NoTool
    /\ resp = NoResp
    /\ sigs = 0
    /\ dir = NoFiles
    /\ fn = NoCall
    /\ held = <<>>
    /\ prev = NoPrev
    /\ calls = 0

Next ==
    \/ TestConnect
    \/ TestQuery
    \/ TestExecute
    \/ TestClose
    \/ TestOpenCallback
    \/ TestAllCallback
    \/ TestRunCallback
    \/ TestCloseCallback

Spec == Init /\ [][Next]_vars

\* ------------------------------------------------- QueryTools on a manager
\* Statements handed to validateQuery: one the engine can plan, one it cannot
\* parse.  The engine decides; the model lets it succeed or fail on either.
ValidateStmts == {[verb |-> "SELECT"], [verb |-> "GARBAGE"]}

\* explainQuery(sql): the statement executeQuery is called with
explainQuery(stmt) == [verb |-> "EXPLAIN", of |-> stmt.verb]

\* The catch of executeQuery
ExecutionFailed(msg) == <<"Query execution failed (", "t", "ms): ">> \o msg

validateQuery_Rethrows(r) ==
    IF r.state = "rejected" THEN Rejected(ExecutionFailed(r.msg))
    ELSE Resolved(<<[valid |-> TRUE]>>)

\* validateQuery(sql), r being what connection.query came to for the EXPLAIN
validateQuery(r) ==
    IF r.state = "rejected"
    THEN Resolved(<<[valid |-> FALSE, error |-> ExecutionFailed(r.msg)]>>)
    ELSE Resolved(<<[valid |-> TRUE]>>)

ValidateQuery ==
    /\ main = "harness"
    /\ \E stmt \in ValidateStmts :
        IF db = Null
        THEN /\ ret' = Returned("validateQuery", validateQuery(NotConnected), "none")
             /\ UNCHANGED <<conn, main, srv>>
        ELSE /\ Len(pending) < MaxPending
             /\ pending' = query(pending, explainQuery(stmt), "validate")
             /\ UNCHANGED <<config, db, sessions, ret, main, srv>>

ValidateQueryCallback ==
    \E i \in 1..Len(pending) : \E err \in {NoErr} \cup EngineMsgs : \E rows \in EngineRows :
        /\ pending[i].who = "validate"
        /\ Served(i, err)
        /\ pending' = Remove(pending, i)
        /\ ret' = Returned("validateQuery", validateQuery(QuerySettled(err, rows)), err)
        /\ UNCHANGED <<config, db, main, srv>>

\* The catch of summarizeColumn
ColumnFailed(msg) ==
    <<"Failed to summarize column \"", "c", "\" in table \"", "t", "\": ">> \o msg

\* summarizeColumn(tableName, columnName), r being what connection.query came
\* to for its statement: the first row, an error of its own on no row (thrown
\* inside the try, so the catch wraps it like every other error)
summarizeColumn(r) ==
    IF r.state = "rejected" THEN Rejected(ColumnFailed(r.msg))
    ELSE IF Len(r.rows) = 0
         THEN Rejected(ColumnFailed(<<"Column \"", "c", "\" not found in table \"", "t", "\"">>))
    ELSE Resolved(<<r.rows[1]>>)

SummarizeColumn ==
    /\ main = "harness"
    /\ IF db = Null
       THEN /\ ret' = Returned("summarizeColumn", summarizeColumn(NotConnected), "none")
            /\ UNCHANGED <<conn, main, srv>>
       ELSE /\ Len(pending) < MaxPending
            /\ pending' = query(pending, [verb |-> "SELECT"], "summarize")
            /\ UNCHANGED <<config, db, sessions, ret, main, srv>>

SummarizeColumnCallback ==
    \E i \in 1..Len(pending) : \E err \in {NoErr} \cup EngineMsgs : \E rows \in EngineRows :
        /\ pending[i].who = "summarize"
        /\ Served(i, err)
        /\ pending' = Remove(pending, i)
        /\ ret' = Returned("summarizeColumn", summarizeColumn(QuerySettled(err, rows)), err)
        /\ UNCHANGED <<config, db, main, srv>>

NextTools ==
    \/ TestConnect
    \/ TestClose
    \/ TestOpenCallback
    \/ TestCloseCallback
    \/ ValidateQuery
    \/ ValidateQueryCallback
    \/ SummarizeColumn
    \/ SummarizeColumnCallback

SpecTools == Init /\ [][NextTools]_vars

\* ------------------------------------------------ accessors of the manager
MaxCopies == 2          \* config objects a caller obtains from getConfig()

\* Objects are told apart by their reference.  The constructor keeps the
\* object it is handed: this.config has the reference ConfigRef.
ConfigRef == 0

getConfig_NoCopy(cfg, fresh) == [ref |-> ConfigRef, val |-> cfg]

\* getConfig(): { ...this.config }, a new object (reference fresh) with the
\* fields of this.config, all three of them primitive values
getConfig(cfg, fresh) == [ref |-> fresh, val |-> cfg]

\* Assignments a caller may make to a field of a config object it holds.
Assignments == [f : {"isDirectory", "readonly"}, v : BOOLEAN]
               \cup {[f |-> "path", v |-> <<"x">>]}

\* obj[a.f] = a.v
Assign(obj, a) ==
    IF a.f = "path" THEN [obj EXCEPT !.path = a.v]
    ELSE IF a.f = "isDirectory" THEN [obj EXCEPT !.isDirectory = a.v]
    ELSE [obj EXCEPT !.readonly = a.v]

\* A caller asks for the config and keeps what it gets.
GetConfig ==
    /\ main = "harness"
    /\ Len(held) < MaxCopies
    /\ held' = Append(held, getConfig(config, Len(held) + 1))
    /\ UNCHANGED <<conn, ret, main, argv, exit, initError, ld, log, tool, resp, sigs, dir, fn,
                   prev, calls>>

\* A caller assigns to a field of an object it got from getConfig(): the write
\* shows through every reference to that object.
MutateHeld ==
    /\ main = "harness"
    /\ \E i \in 1..Len(held) : \E a \in Assignments :
        /\ Assign(held[i].val, a) # held[i].val
        /\ held' = [j \in 1..Len(held) |->
                       IF held[j].ref = held[i].ref
                       THEN [held[j] EXCEPT !.val = Assign(@, a)]
                       ELSE held[j]]
        /\ config' = IF held[i].ref = ConfigRef THEN Assign(config, a) ELSE config
    /\ UNCHANGED <<db, sessions, pending, ret, main, argv, exit, initError, ld, log, tool,
                   resp, sigs, dir, fn, prev, calls>>

NextConfig ==
    \/ TestConnect
    \/ TestOpenCallback
    \/ GetConfig
    \/ MutateHeld

SpecConfig == Init /\ [][NextConfig]_vars

\* ------------------------------------------------------------ path detection
NoConfig == [none |-> TRUE]

\* fs.promises.stat on the sample file system the server is started in
StatOf(inputPath) ==
    IF inputPath = <<"d","-","1">> THEN "dir"
    ELSE IF inputPath \in {<<"a",".","D","B">>, <<"a",".","c","s","v">>} THEN "file"
    ELSE IF inputPath = <<"s">> THEN "other"
    ELSE IF inputPath = <<"p">> THEN "EACCES"
    ELSE "ENOENT"

ArgPaths == {<<"d","-","1">>, <<"a",".","D","B">>, <<"a",".","c","s","v">>,
             <<"s">>, <<"p">>, <<"x">>}

DbExtensions == {<<".","d","b">>, <<".","d","u","c","k","d","b">>, <<".","s","q","l","i","t","e">>}

Detected(inputPath, isDir) ==
    [ok |-> TRUE, msg |-> <<>>,
     config |-> [path |-> inputPath, isDirectory |-> isDir, readonly |-> TRUE]]
DetectError(msg) == [ok |-> FALSE, msg |-> msg, config |-> NoConfig]

detectPathType_CaseSensitive(inputPath, stat) ==
    IF stat = "dir" THEN Detected(inputPath, TRUE)
    ELSE IF stat = "file" THEN
        IF extname(inputPath) \in DbExtensions THEN Detected(inputPath, FALSE)
        ELSE DetectError(<<"Unsupported file type: ">> \o extname(inputPath)
                         \o <<". Use .db, .duckdb, or specify a directory.">>)
    ELSE IF stat = "other" THEN DetectError(<<"Invalid path: ">> \o inputPath)
    ELSE IF stat = "ENOENT" THEN DetectError(<<"Path does not exist: ">> \o inputPath)
    ELSE DetectError(<<stat>>)

detectPathType(inputPath, stat) ==
    IF stat = "dir" THEN Detected(inputPath, TRUE)
    ELSE IF stat = "file" THEN
        LET ext == toLowerCase(extname(inputPath))
        IN IF ext \in DbExtensions THEN Detected(inputPath, FALSE)
           ELSE DetectError(<<"Unsupported file type: ">> \o ext
                            \o <<". Use .db, .duckdb, or specify a directory.">>)
    ELSE IF stat = "other" THEN DetectError(<<"Invalid path: ">> \o inputPath)
    ELSE IF stat = "ENOENT" THEN DetectError(<<"Path does not exist: ">> \o inputPath)
    ELSE DetectError(<<stat>>)

\* ---------------------------------------------------------------- the tools
ToolNames == {"get_tables", "get_schema", "describe_table", "execute_query",
              "summarize_table", "get_database_info"}

\* Tool calls a client may send: name, whether arguments came, the kind of SQL.
Requests ==
    [name : {"get_tables", "get_database_info", "no_such_tool"}, hasArgs : {FALSE},
     sql : {"none"}]
    \cup [name : {"get_schema", "describe_table", "summarize_table"}, hasArgs : BOOLEAN,
          sql : {"none"}]
    \cup [name : {"execute_query"}, hasArgs : {TRUE}, sql : {"SELECT", "WRITE"}]
    \cup [name : {"execute_query"}, hasArgs : {FALSE}, sql : {"none"}]

Throw(msg) == [threw |-> TRUE, val |-> msg]
Return(text) == [threw |-> FALSE, val |-> text]

NeedsArgs(name) == name \in {"get_schema", "describe_table", "execute_query", "summarize_table"}

\* The statement a tool sends at a stage of its work.
ToolSql(req, stage) ==
    IF req.name = "execute_query" THEN [verb |-> req.sql, q |-> "user"]
    ELSE IF req.name = "get_tables" THEN [verb |-> "SELECT", q |-> "tables"]
    ELSE IF req.name = "get_schema" THEN [verb |-> "SELECT", q |-> "columns"]
    ELSE IF req.name = "describe_table"
         THEN [verb |-> "SELECT", q |-> IF stage = 1 THEN "columns" ELSE "count"]
    ELSE IF req.name = "summarize_table" THEN [verb |-> "SUMMARIZE", q |-> "table"]
    ELSE [verb |-> "SELECT", q |-> IF stage = 1 THEN "version" ELSE "tables"]

\* information_schema.tables of a session, ORDER BY table_name: the views of the
\* loader, then the table of the client.
CatalogNames(s) ==
    LET order == <<csv, json, jsonl, parquet>>
        loaded == SelectSeq([i \in 1..Len(order) |-> generateTableName(config.path, order[i])],
                            LAMBDA n : \E v \in s.views : v.name = n /\ v.def.form # "table")
    IN loaded \o (IF \E v \in s.views : v.name = UserTable THEN <<UserTable>> ELSE <<>>)

CatalogRows(s) ==
    [i \in 1..Len(CatalogNames(s)) |->
        [name |-> CatalogNames(s)[i],
         type |-> IF CatalogNames(s)[i] = UserTable THEN "BASE TABLE" ELSE "VIEW"]]

\* Rows the engine may answer a statement of a tool with: the catalog as it
\* is for the query on information_schema.tables, any rows otherwise.
EngineAnswers(op) ==
    IF op.stmt.q = "tables" THEN {CatalogRows(sessions[op.sess])} ELSE EngineRows

\* getTables(): rows.map(row => ({name, schema, type}))
getTables(rows) ==
    [i \in 1..Len(rows) |->
        [name |-> rows[i].name,
         type |-> IF rows[i].type = "BASE TABLE" THEN "TABLE" ELSE "VIEW"]]

\* How a tool rethrows a rejection of connection.query
ToolError(req, msg) ==
    IF req.name = "execute_query" THEN <<"Query execution failed (", "t", "ms): ">> \o msg
    ELSE IF req.name = "summarize_table"
         THEN <<"Failed to summarize table \"", "t", "\": ">> \o msg
    ELSE msg

\* Stages (awaited queries) of a tool.
Stages(req) == IF req.name \in {"describe_table", "get_database_info"} THEN 2 ELSE 1

\* getDatabaseInfo(): the version of the first row of the version query,
\* the tables, their number, and the readonly of the connection's config
getDatabaseInfo(versionResult, tables) ==
    [version |-> IF versionResult = <<>> THEN "Unknown" ELSE versionResult[1],
     tables |-> getTables(tables),
     totalTables |-> Len(getTables(tables)),
     readonly |-> getConfig(config, Len(held) + 1).val.readonly]

\* What the case of the switch returns or throws once its last query has
\* resolved with rows, got being the rows of the query before it; bad: the
\* rows hold a value its formatter cannot take (a BigInt count for
\* JSON.stringify, a null for toFixed).
ToolFinish(req, rows, got, bad) ==
    IF req.name = "describe_table" /\ rows # <<>> /\ bad
    THEN Throw(<<"Do not know how to serialize a BigInt">>)
    ELSE IF req.name = "summarize_table" /\ rows # <<>> /\ bad
    THEN Throw(<<"Cannot read properties of null (reading 'toFixed')">>)
    ELSE IF req.name = "get_database_info"
    THEN Return(<<req.name, getDatabaseInfo(got, rows)>>)
    ELSE IF req.name = "get_tables"
    THEN Return(<<req.name>> \o getTables(rows))
    ELSE Return(<<req.name>> \o rows)

\* The case of the switch has thrown nothing and awaits its first query.
GoOn == Return(<<>>)

ToolBegin_Cached(req) ==
    IF resp.kind = "done" /\ resp.req = req /\ ~resp.outcome.threw THEN resp.outcome
    ELSE IF req.name \notin ToolNames THEN Throw(<<"Unknown tool", ": ", req.name>>)
    ELSE IF NeedsArgs(req.name) /\ ~req.hasArgs
    THEN Throw(<<"Cannot destructure property of undefined">>)
    ELSE IF db = Null THEN Throw(ToolError(req, NotConnected.msg))
    ELSE GoOn

\* The case of the switch up to its first await: what it throws, if it does.
ToolBegin(req) ==
    IF req.name \notin ToolNames THEN Throw(<<"Unknown tool", ": ", req.name>>)
    ELSE IF NeedsArgs(req.name) /\ ~req.hasArgs
    THEN Throw(<<"Cannot destructure property of undefined">>)
    ELSE IF db = Null THEN Throw(ToolError(req, NotConnected.msg))
    ELSE GoOn

CallToolResult_Propagates(out) ==
    IF out.threw THEN [kind |-> "exception", isError |-> TRUE, text |-> out.val]
    ELSE [kind |-> "response", isError |-> FALSE, text |-> out.val]

\* The try/catch of the CallToolRequestSchema handler
CallToolResult(out) ==
    IF out.threw
    THEN [kind |-> "response", isError |-> TRUE, text |-> <<"Error: ">> \o out.val]
    ELSE [kind |-> "response", isError |-> FALSE, text |-> out.val]

\* The handler is done with req: out is what the case of the switch came to,
\* asked the number of statements it has sent to the engine, others the calls
\* still being served.
Respond(req, out, sess, asked, others) ==
    /\ resp' = [kind |-> "done", req |-> req, outcome |-> out, sess |-> sess,
                asked |-> asked, result |-> CallToolResult(out)]
    /\ tool' = others

\* ------------------------------------------------------------- the process
MaxSignals == 2         \* SIGINT/SIGTERM deliveries in a run
MaxCalls == 2           \* tool calls a client sends in a run

Running == exit = "running" /\ main # "harness"

InitFailed_NoExit(stage) ==
    /\ initError' = stage
    /\ exit' = exit
    /\ main' = "serving"

\* catch of initialize(): log, process.exit(1)
InitFailed(stage) ==
    /\ initError' = stage
    /\ exit' = "1"
    /\ main' = "failed"

\* initialize() after a step of loadData(): on its return the tools are built
\* and run() connects the transport.
AfterLoadData ==
    IF ld'.pc = "failed" THEN InitFailed("load")
    ELSE /\ main' = IF ld'.pc = "done" THEN "serving" ELSE "load"
         /\ UNCHANGED <<exit, initError>>

\* main(): the server object, the signal handlers, initialize(path) up to stat
Main ==
    /\ Running /\ main = "start"
    /\ main' = "stat"
    /\ UNCHANGED <<conn, ret, argv, exit, initError, ld, log, tool, resp, sigs, dir, fn, held, prev, calls>>

\* stat settles: detectPathType returns or throws, then connect() starts
StatCallback ==
    /\ Running /\ main = "stat"
    /\ LET r == detectPathType(argv, StatOf(argv))
       IN IF r.ok
          THEN /\ config' = r.config
               /\ connect(r.config, "init")
               /\ main' = "connect"
               /\ UNCHANGED <<exit, initError>>
          ELSE /\ InitFailed("path")
               /\ UNCHANGED conn
    /\ UNCHANGED <<ret, argv, ld, log, tool, resp, sigs, dir, fn, held, prev, calls>>

\* the open callback: connect() settles, then loadData() starts
InitOpenCallback ==
    \E i \in 1..Len(pending) : \E err \in {NoErr} \cup EngineMsgs :
        /\ Running
        /\ pending[i].who = "init"
        /\ Served(i, err)
        /\ pending' = Remove(pending, i)
        /\ IF ConnectSettled(err).state = "rejected"
           THEN InitFailed("connect") /\ UNCHANGED <<ld, log>>
           ELSE loadData /\ AfterLoadData
        /\ UNCHANGED <<config, db, ret, argv, tool, resp, sigs, dir, fn, held, prev, calls>>

\* a glob of the loader settles
GlobCallback ==
    /\ Running /\ main = "load" /\ ld.pc = "glob"
    /\ \E out \in GlobOutcomes(ld.ext, ld.pat) :
        /\ GlobSettled(out)
        /\ AfterLoadData
        /\ UNCHANGED <<config, db, sessions, ret, argv, tool, resp, sigs, dir, fn, held, prev, calls>>

\* the run callback of a view registration
LoaderRunCallback ==
    \E i \in 1..Len(pending) : \E err \in {NoErr} \cup EngineMsgs :
        /\ Running
        /\ pending[i].who = "loader"
        /\ Served(i, err)
        /\ main = "load"
        /\ LoaderExecuteSettled(ExecuteSettled(err), Remove(pending, i))
        /\ AfterLoadData
        /\ UNCHANGED <<config, db, ret, argv, tool, resp, sigs, dir, fn, held, prev, calls>>

\* the transport delivers a tool call, whether or not others are being
\* served: the handler runs to its first await
ToolCall ==
    \E req \in Requests :
        /\ Running /\ main = "serving"
        /\ calls < MaxCalls
        /\ calls' = calls + 1
        /\ IF ToolBegin(req) # GoOn
           THEN Respond(req, ToolBegin(req), db, 0, tool) /\ pending' = pending
           ELSE /\ pending' = query(pending, ToolSql(req, 1), "tool")
                /\ tool' = Append(tool, [name |-> req.name, req |-> req, stage |-> 1,
                                         got |-> <<>>])
                /\ resp' = resp
        /\ UNCHANGED <<config, db, sessions, ret, main, argv, exit, initError, ld, log, sigs, dir, fn, held, prev>>

\* The call whose query pending[i] is: the queries of the tools stand in
\* pending in the order of their calls in tool.
CallOf(i) == Cardinality({k \in 1..i : pending[k].who = "tool"})

\* the all callback of a tool's query: the tool goes on to its next query or
\* the handler returns
ToolQueryCallback ==
    \E i \in 1..Len(pending) : \E err \in {NoErr} \cup EngineMsgs :
        /\ Running
        /\ pending[i].who = "tool"
        /\ Served(i, err)
        /\ \E rows \in (IF err = NoErr THEN EngineAnswers(pending[i]) ELSE {NoRows}) :
           \E bad \in (IF err = NoErr /\ rows # <<>> THEN BOOLEAN ELSE {FALSE}) :
           LET r == QuerySettled(err, rows)
               rest == Remove(pending, i)
               call == tool[CallOf(i)]
               others == Remove(tool, CallOf(i))
           IN IF r.state = "rejected"
              THEN Respond(call.req, Throw(ToolError(call.req, r.msg)), pending[i].sess,
                           call.stage, others)
                   /\ pending' = rest
              ELSE IF call.stage < Stages(call.req)
              THEN IF db = Null
                   THEN Respond(call.req, Throw(NotConnected.msg), pending[i].sess,
                                call.stage, others)
                        /\ pending' = rest
                   ELSE /\ pending' = query(rest, ToolSql(call.req, call.stage + 1), "tool")
                        /\ tool' = Append(others, [call EXCEPT !.stage = @ + 1, !.got = r.rows])
                        /\ resp' = resp
              ELSE Respond(call.req, ToolFinish(call.req, r.rows, call.got, bad),
                           pending[i].sess, call.stage, others)
                   /\ pending' = rest
        /\ UNCHANGED <<config, db, ret, main, argv, exit, initError, ld, log, sigs, dir, fn, held, prev, calls>>

\* cleanup(): close the connection if there is one
\* SIGINT or SIGTERM: await server.cleanup(); process.exit(0)
Signal ==
    /\ Running /\ main # "start"
    /\ sigs < MaxSignals
    /\ sigs' = sigs + 1
    /\ IF config # NoConfig /\ db # Null
       THEN pending' = close(pending, "signal") /\ exit' = exit
       ELSE pending' = pending /\ exit' = "0"
    /\ UNCHANGED <<config, db, sessions, ret, main, argv, initError, ld, log, tool, resp, dir, fn, held, prev, calls>>

\* the close callback of a signal handler: process.exit(0) if close() resolved;
\* if it rejected, the handler's promise rejects with nobody to catch it, which
\* ends the process with status 1 or leaves it running, as the runtime is set.
SignalCloseCallback ==
    \E i \in 1..Len(pending) : \E err \in {NoErr} \cup EngineMsgs : \E crash \in BOOLEAN :
        /\ Running
        /\ pending[i].who = "signal"
        /\ Served(i, err)
        /\ pending' = Remove(pending, i)
        /\ db' = DbAfterClose(err)
        /\ exit' = IF CloseSettled(err).state = "resolved" THEN "0"
                   ELSE IF crash THEN "1" ELSE exit
        /\ UNCHANGED <<config, ret, main, argv, initError, ld, log, tool, resp, sigs, dir, fn, held, prev, calls>>

\* The process starts with one of paths as its argument; the directory among
\* them holds one of dirs.
InitProcess(paths, dirs) ==
    /\ config = NoConfig
    /\ db = Null
    /\ sessions = <<>>
    /\ pending = <<>>
    /\ ret = NoReturn
    /\ main = "start"
    /\ argv \in paths
    /\ exit = "running"
    /\ initError = "none"
    /\ ld = LoaderIdle
    /\ log = NoLog
    /\ tool = NoTool
    /\ resp = NoResp
    /\ sigs = 0
    /\ dir \in IF StatOf(argv) = "dir" THEN dirs ELSE {NoFiles}
    /\ fn = NoCall
    /\ held = <<>>
    /\ prev = NoPrev
    /\ calls = 0

\* The directory of the repository's tests: one csv file (people.csv), one
\* parquet file (trips.parquet), one json file (sales.json), no jsonl file.
SampleDir == <<{1}, {1}, {1}, {}>>

\* The sample directory with more csv files in a subdirectory.
NestedDir == <<{1, MaxFiles}, {1}, {1}, {}>>

\* A directory with one csv file and nothing else.
CsvDir == <<{1}, {}, {}, {}>>

InitServer == InitProcess(ArgPaths, {CsvDir})

NextServer ==
    \/ Main
    \/ StatCallback
    \/ InitOpenCallback
    \/ GlobCallback
    \/ LoaderRunCallback
    \/ ToolCall
    \/ ToolQueryCallback
    \/ Signal
    \/ SignalCloseCallback

SpecServer == InitServer /\ [][NextServer]_vars

\* Initialization alone, over every content of the target directory.
\* What the directory may hold of one extension: nothing, one file at the
\* top, one file below, or every file.
DirContents == {{}, {1}, {2}, 1..MaxFiles}

InitLoad ==
    InitProcess({<<"d","-","1">>, <<"a",".","D","B">>}, [1..NumExts -> DirContents])

NextLoad ==
    \/ Main
    \/ StatCallback
    \/ InitOpenCallback
    \/ GlobCallback
    \/ LoaderRunCallback

SpecLoad == InitLoad /\ [][NextLoad]_vars

\* A direct user of DataLoader (the tests drive it so) calls loadData() once
\* more when the first call has returned, with the same config and session.
LoadDataAgain ==
    /\ Running /\ main = "serving"
    /\ ld.pc = "done" /\ config.isDirectory /\ ~prev.again
    /\ prev' = [again |-> TRUE, log |-> log, views |-> sessions[db].views]
    /\ loadData
    /\ main' = "load"
    /\ UNCHANGED <<conn, ret, argv, exit, initError, tool, resp, sigs, dir, fn, held, calls>>

InitReload == InitProcess({<<"d","-","1">>}, {SampleDir, NestedDir})

NextReload ==
    \/ Main
    \/ StatCallback
    \/ InitOpenCallback
    \/ GlobCallback
    \/ LoaderRunCallback
    \/ LoadDataAgain

SpecReload == InitReload /\ [][NextReload]_vars

\* ------------------------------------------- functions applied on their own
\* The functions of the loader and of the tools that need no session, each
\* applied once to an input a caller may hand it.
MaxPathLen == 3         \* characters of a directory path

Applied(name, args, result) == [name |-> name, args |-> args, result |-> result]

CanApply == main = "fn" /\ fn = NoCall

\* Characters a directory path is made of: letters, a digit, the underscore,
\* and characters SQL names do not take.
DirChars == {"a", "Z", "7", "_", "-", ".", "/", " "}

DirPaths == UNION {[1..n -> DirChars] : n \in 1..MaxPathLen}

GenerateTableName ==
    /\ CanApply
    /\ \E basePath \in DirPaths : \E k \in 1..NumExts :
        /\ fn' = Applied("generateTableName", <<basePath, supportedExtensions[k]>>,
                         generateTableName(basePath, supportedExtensions[k]))
        /\ UNCHANGED <<conn, ret, main, argv, exit, initError, ld, log, tool, resp, sigs, dir, held, prev, calls>>

\* Paths handed to detectPathType, and what stat may report of a path: a
\* directory, a regular file, another kind of file, or the code of its failure.
DetectPaths == {<<"d">>, <<"d", ".", "d", "b">>, <<"a", ".", "d", "b">>, <<"a", ".", "D", "B">>,
                <<"a", ".", "D", "u", "c", "k", "d", "b">>, <<"a", ".", "s", "q", "l", "i", "t", "e">>,
                <<"a", ".", "c", "s", "v">>, <<"a">>, <<".", "d", "b">>,
                <<"a", ".", "d", "b", ".", "b", "a", "k">>, <<"a", ".", "d", "b", "/", "x">>}

StatResults == {"dir", "file", "other", "ENOENT", "ENOTDIR", "EACCES"}

DetectPathType ==
    /\ CanApply
    /\ \E inputPath \in DetectPaths : \E stat \in StatResults :
        /\ fn' = Applied("detectPathType", <<inputPath, stat>>, detectPathType(inputPath, stat))
        /\ UNCHANGED <<conn, ret, main, argv, exit, initError, ld, log, tool, resp, sigs, dir, held, prev, calls>>

\* ---- rows of the engine, as QueryTools sees them
MaxRows == 2            \* rows of an engine result

\* A value of a row: null, a number or a string, with the text String() gives it.
Undefined == [t |-> "undefined", v |-> <<"u", "n", "d", "e", "f", "i", "n", "e", "d">>]
NullCell == [t |-> "null", v |-> <<"n", "u", "l", "l">>]
ZeroCell == [t |-> "num", v |-> <<"0">>]
Cells == {NullCell, ZeroCell, [t |-> "str", v |-> <<"l", "o", "n", "g">>]}

\* A row is an object: its keys in their order, each with its value.
ColumnNames == {"a", "b"}
KeyOrders == {<<>>, <<"a">>, <<"b">>, <<"a", "b">>, <<"b", "a">>}
ObjectRows == UNION {{[i \in 1..Len(ks) |-> <<ks[i], vs[i]>>] : vs \in [1..Len(ks) -> Cells]}
                     : ks \in KeyOrders}
RowLists == UNION {[1..n -> ObjectRows] : n \in 0..MaxRows}

\* Date.now() - startTime
Times == {0, 5}

\* Object.keys(row)
Keys(row) == [i \in 1..Len(row) |-> row[i][1]]

\* row[col]
Get(row, col) ==
    IF \E i \in 1..Len(row) : row[i][1] = col
    THEN row[CHOOSE i \in 1..Len(row) : row[i][1] = col][2]
    ELSE Undefined

executeQuery_OwnKeys(rows, executionTime) ==
    IF Len(rows) = 0
    THEN [columns |-> <<>>, rows |-> <<>>, rowCount |-> 0, executionTime |-> executionTime]
    ELSE [columns |-> Keys(rows[1]),
          rows |-> [r \in 1..Len(rows) |-> [c \in 1..Len(rows[r]) |-> rows[r][c][2]]],
          rowCount |-> Len(rows),
          executionTime |-> executionTime]

\* executeQuery(sql) once connection.query has resolved with rows
executeQuery(rows, executionTime) ==
    IF Len(rows) = 0
    THEN [columns |-> <<>>, rows |-> <<>>, rowCount |-> 0, executionTime |-> executionTime]
    ELSE LET columns == Keys(rows[1])
         IN [columns |-> columns,
             rows |-> [r \in 1..Len(rows) |->
                          [c \in 1..Len(columns) |-> Get(rows[r], columns[c])]],
             rowCount |-> Len(rows),
             executionTime |-> executionTime]

ExecuteQuery ==
    /\ CanApply
    /\ \E rows \in RowLists : \E t \in Times :
        /\ fn' = Applied("executeQuery", <<rows, t>>, executeQuery(rows, t))
        /\ UNCHANGED <<conn, ret, main, argv, exit, initError, ld, log, tool, resp, sigs, dir, held, prev, calls>>

\* ---- formatResults
\* A limit argument: not given, or a number.
NoLimit == [given |-> FALSE, n |-> 0]
Limit(n) == [given |-> TRUE, n |-> n]
Limits == {NoLimit} \cup {Limit(n) : n \in 0..(MaxRows + 1)}

\* JavaScript truthiness of the limit argument
Truthy(limit) == limit.given /\ limit.n # 0

\* Array.prototype.slice(0, n)
Slice(rows, n) ==
    IF n >= 0 THEN SubSeq(rows, 1, IF n < Len(rows) THEN n ELSE Len(rows))
    ELSE SubSeq(rows, 1, Len(rows) + n)

\* String(cell || ''): null, undefined and 0 are falsy
CellText(cell) == IF cell.t \in {"null", "undefined"} \/ cell = ZeroCell THEN <<>> ELSE cell.v

Max(a, b) == IF a >= b THEN a ELSE b

\* Math.max(...displayRows.map(row => String(row[i] || '').length)), which is
\* -Infinity for no rows: below every width, as 0 is
MaxWidth(rows, i) ==
    LET W == {Len(CellText(rows[r][i])) : r \in 1..Len(rows)}
    IN IF W = {} THEN 0 ELSE CHOOSE m \in W : \A w \in W : w <= m

\* String.prototype.padEnd
PadEnd(str, width) == str \o [j \in 1..(width - Len(str)) |-> " "]

MinWidth == 3

\* formatResults(result, limit): the lines of the text
formatResults(result, limit) ==
    IF result.rowCount = 0 THEN <<[kind |-> "text", text |-> "No results returned."]>>
    ELSE LET displayRows == IF Truthy(limit) THEN Slice(result.rows, limit.n) ELSE result.rows
             hasMore == Truthy(limit) /\ Len(result.rows) > limit.n
             colWidths == [i \in 1..Len(result.columns) |->
                              Max(Max(1, MaxWidth(displayRows, i)), MinWidth)]
         IN <<[kind |-> "header",
               cells |-> [i \in 1..Len(result.columns) |->
                             PadEnd(<<result.columns[i]>>, colWidths[i])]],
              [kind |-> "separator", widths |-> colWidths]>>
            \o [r \in 1..Len(displayRows) |->
                   [kind |-> "row",
                    cells |-> [i \in 1..Len(displayRows[r]) |->
                                  PadEnd(CellText(displayRows[r][i]), colWidths[i])]]]
            \o (IF hasMore
                THEN <<[kind |-> "blank"], [kind |-> "more", k |-> result.rowCount - limit.n]>>
                ELSE <<>>)
            \o <<[kind |-> "blank"],
                 [kind |-> "count", n |-> result.rowCount,
                  timed |-> result.executionTime # 0, ms |-> result.executionTime]>>

\* Engine results formatResults is shown on: rows with the columns a, or a and b.
FormatRows == {row \in ObjectRows : Keys(row) \in {<<"a">>, <<"a", "b">>}}
FormatRowLists == UNION {[1..n -> FormatRows] : n \in 0..MaxRows}

FormatResults ==
    /\ CanApply
    /\ \E rows \in FormatRowLists : \E t \in Times : \E limit \in Limits :
        /\ fn' = Applied("formatResults", <<executeQuery(rows, t), limit>>,
                         formatResults(executeQuery(rows, t), limit))
        /\ UNCHANGED <<conn, ret, main, argv, exit, initError, ld, log, tool, resp, sigs, dir, held, prev, calls>>

\* ---- the execute_query case of the handler
DefaultLimit == 100

\* The decimal digits of a natural number
RECURSIVE Digits(_)
Digits(n) == IF n < 10 THEN <<ToString(n)>> ELSE Digits(n \div 10) \o <<ToString(n % 10)>>

\* A result with more rows than the default limit: row i holds the text of i
ManyRows == [i \in 1..(DefaultLimit + 1) |-> <<<<"a", [t |-> "str", v |-> Digits(i)]>>>>]

\* arguments of execute_query: sql, and limit or not
QueryArgs == {[sql |-> "SELECT"]} \cup {[sql |-> "SELECT", limit |-> n] : n \in 0..(MaxRows + 1)}

\* const { sql, limit = 100 } = args
LimitOf(args) == IF "limit" \in DOMAIN args THEN Limit(args.limit) ELSE Limit(DefaultLimit)

\* case 'execute_query', rows being what the engine answered
execute_query(args, rows, t) == formatResults(executeQuery(rows, t), LimitOf(args))

ExecuteQueryTool ==
    /\ CanApply
    /\ \E rows \in FormatRowLists \cup {ManyRows} : \E args \in QueryArgs :
        /\ fn' = Applied("execute_query", <<args, rows>>, execute_query(args, rows, 5))
        /\ UNCHANGED <<conn, ret, main, argv, exit, initError, ld, log, tool, resp, sigs, dir, held, prev, calls>>

\* ---- formatSummary
MaxCols == 2            \* records of a summary with more than one column

\* The optional fields of a SummaryResult in the order formatSummary visits
\* them, with the label of the line of each.
SummaryFields == <<"count", "null_percentage", "approx_unique", "min", "max",
                   "avg", "std", "q25", "q50", "q75">>
SummaryLabels == <<"Count", "Null %", "Unique", "Min", "Max",
                   "Avg", "Std", "Q25", "Median", "Q75">>

\* A field is absent (undefined), null, or holds a number.
FieldStates == {"undefined", "null", "number"}

SummaryRecords == [Range(SummaryFields) -> FieldStates]

\* Records of a SUMMARIZE: a numeric column, a text column (no avg, std,
\* quartiles), and one of an engine that reports no statistics.
SampleRecords ==
    {[f \in Range(SummaryFields) |-> "number"],
     [f \in Range(SummaryFields) |->
         IF f \in {"avg", "std", "q25", "q50", "q75"} THEN "null" ELSE "number"],
     [f \in Range(SummaryFields) |-> "undefined"]}

Summaries ==
    {<<>>} \cup {<<r>> : r \in SummaryRecords}
    \cup UNION {[1..n -> SampleRecords] : n \in 2..MaxCols}

\* Fields tested against undefined only / against undefined and null
GuardsUndefinedOnly == {"count", "null_percentage", "approx_unique"}
\* Fields rendered with toFixed(2)
UsesToFixed == {"null_percentage", "avg", "std"}

\* The if of field i of a record: does the line get written
Writes(col, i) ==
    LET f == SummaryFields[i]
    IN IF f \in GuardsUndefinedOnly THEN col[f] # "undefined"
       ELSE col[f] \notin {"undefined", "null"}

\* toFixed is called on a value that has no such method
ToFixedThrows(col, i) ==
    Writes(col, i) /\ SummaryFields[i] \in UsesToFixed /\ col[SummaryFields[i]] # "number"

SummaryLine(c, col, i) ==
    [col |-> c, label |-> SummaryLabels[i], value |-> col[SummaryFields[i]],
     fixed |-> SummaryFields[i] \in UsesToFixed]

RECURSIVE FieldLines(_, _, _)
FieldLines(c, col, i) ==
    IF i > Len(SummaryFields) THEN <<>>
    ELSE (IF Writes(col, i) THEN <<SummaryLine(c, col, i)>> ELSE <<>>)
         \o FieldLines(c, col, i + 1)

RECURSIVE Blocks(_, _)
Blocks(summary, c) ==
    IF c > Len(summary) THEN <<>>
    ELSE <<[col |-> c, label |-> "Column"], [col |-> c, label |-> "rule"]>>
         \o FieldLines(c, summary[c], 1)
         \o <<[col |-> c, label |-> "blank"]>>
         \o Blocks(summary, c + 1)

\* formatSummary(summary): the lines of the text, or the TypeError of a
\* toFixed on null
formatSummary(summary) ==
    IF Len(summary) = 0 THEN Return(<<[col |-> 0, label |-> "No columns to summarize."]>>)
    ELSE IF \E c \in 1..Len(summary) : \E i \in 1..Len(SummaryFields) :
                ToFixedThrows(summary[c], i)
    THEN Throw(<<"Cannot read properties of null (reading 'toFixed')">>)
    ELSE Return(<<[col |-> 0, label |-> "Table Summary"], [col |-> 0, label |-> "rule"],
                  [col |-> 0, label |-> "blank"]>> \o Blocks(summary, 1))

FormatSummary ==
    /\ CanApply
    /\ \E summary \in Summaries :
        /\ fn' = Applied("formatSummary", <<summary>>, formatSummary(summary))
        /\ UNCHANGED <<conn, ret, main, argv, exit, initError, ld, log, tool, resp, sigs, dir, held, prev, calls>>

InitFn ==
    /\ config = NoConfig
    /\ db = Null
    /\ sessions = <<>>
    /\ pending = <<>>
    /\ ret = NoReturn
    /\ main = "fn"
    /\ argv = <<>>
    /\ exit = "running"
    /\ initError = "none"
    /\ ld = LoaderIdle
    /\ log = NoLog
    /\ tool = NoTool
    /\ resp = NoResp
    /\ sigs = 0
    /\ dir = NoFiles
    /\ fn = NoCall
    /\ held = <<>>
    /\ prev = NoPrev
    /\ calls = 0

NextFn ==
    \/ GenerateTableName
    \/ DetectPathType
    \/ ExecuteQuery
    \/ FormatResults
    \/ ExecuteQueryTool
    \/ FormatSummary

SpecFn == InitFn /\ [][NextFn]_vars

\* ------------------------------------------------------------------ claims
Contains(msg, tok) == \E k \in 1..Len(msg) : msg[k] = tok

ManagerState == <<config, db, sessions, pending>>

\* C2: connect() opens the in-memory database read-write for a directory
\* config and the file at config.path read-only otherwise; an open error of the
\* engine makes connect() reject with a message containing the engine's message.
C2_ConnectFollowsConfig ==
    /\ \A s \in 1..Len(sessions) :
          IF config.isDirectory
          THEN sessions[s].path = <<":memory:">> /\ sessions[s].mode = "read_write"
          ELSE sessions[s].path = config.path /\ sessions[s].mode = "read_only"
    /\ ret.op = "connect" =>
          IF ret.eng = NoErr THEN ret.state = "resolved"
          ELSE ret.state = "rejected" /\ Contains(ret.msg, ret.eng)

C2_Witness ==
    /\ ret.op = "connect" /\ ret.state = "rejected" /\ ret.eng \in EngineMsgs
    /\ config.isDirectory
    /\ sessions[Len(sessions)].state = "failed"

\* C3 (as claimed): once every call has settled, at most one session the
\* manager opened is open.
C3_AtMostOneOpenSession ==
    pending = <<>> =>
        Cardinality({s \in 1..Len(sessions) : sessions[s].state = "open"}) <= 1

\* C4: close() on a manager with no session (never connected, or after a
\* successful close) resolves, calls the engine not at all and changes nothing.
C4_CloseIdempotent ==
    [][(db = Null /\ ret'.op = "close" /\ ret'.eng = "none" /\ ret'.tick # ret.tick)
        => (ret'.state = "resolved" /\ ManagerState' = ManagerState)]_vars

C4_Witness ==
    /\ ret.op = "close" /\ ret.eng = "none" /\ ret.state = "resolved"
    /\ db = Null
    /\ Len(sessions) = 1 /\ sessions[1].state = "closed"

\* C5: query() and execute() without a session reject with the not-connected
\* error, forward nothing to the engine and change nothing; with a session, an
\* engine error becomes a rejection whose message contains the engine's message.
C5_QueryExecuteErrors ==
    [][(ret'.op \in {"query", "execute"} /\ ret'.tick # ret.tick) =>
         IF ret'.eng = "none"
         THEN /\ db = Null
              /\ ret'.state = "rejected"
              /\ ret'.msg = <<"Database not connected">>
              /\ ManagerState' = ManagerState
         ELSE /\ db # Null \/ Len(sessions) > 0
              /\ IF ret'.eng = NoErr THEN ret'.state = "resolved"
                 ELSE ret'.state = "rejected" /\ Contains(ret'.msg, ret'.eng)]_vars

C5_Witness ==
    /\ ret.op = "query" /\ ret.eng = "none" /\ ret.state = "rejected"
    /\ db = Null
    /\ Len(sessions) = 1 /\ sessions[1].state = "closed"

C5_WitnessEngineError ==
    /\ ret.op = "execute" /\ ret.eng \in EngineMsgs /\ ret.state = "rejected"
    /\ db # Null /\ sessions[db].state = "open"

\* ------------------------------------------------- claims about the process
Opened(s) == sessions[s].state \in {"open", "closed"}

NeverServed == tool = NoTool /\ resp = NoResp /\ main # "serving"

\* C1 (as claimed): every session a tool's statement is sent to was opened
\* read-only, and no write statement sent through execute_query succeeds.
C1_ToolsRunReadOnly ==
    /\ \A i \in 1..Len(pending) :
          pending[i].who = "tool" => sessions[pending[i].sess].mode = "read_only"
    /\ (resp.kind = "done" /\ resp.req.sql = "WRITE") => resp.result.isError

\* C6: the handler answers every tool call with a response and lets no
\* exception out: what the tool threw comes back flagged as an error with the
\* text "Error: " and the message, and an unregistered name is answered by an
\* error response containing "Unknown tool".
C6_DispatcherCatchesAll ==
    resp.kind = "done" =>
        /\ resp.result.kind = "response"
        /\ resp.outcome.threw =>
              /\ resp.result.isError
              /\ resp.result.text = <<"Error: ">> \o resp.outcome.val
        /\ resp.req.name \notin {"get_tables", "get_schema", "describe_table",
                                 "execute_query", "summarize_table", "get_database_info"}
              => resp.result.isError /\ Contains(resp.result.text, "Unknown tool")

C6_Witness ==
    /\ resp.kind = "done"
    /\ resp.req.name = "execute_query"
    /\ resp.outcome.threw
    /\ Contains(resp.result.text, "m2")

C6_WitnessUnknownTool ==
    /\ resp.kind = "done"
    /\ resp.req.name = "no_such_tool"
    /\ resp.result.isError

\* C7: a tool call is served only once path detection, connect and loadData
\* have all succeeded; a failed path detection or connect ends the process with
\* status 1 before any tool call is served; a failed registration of an
\* extension does not fail the initialization.
C7_ServeOnlyAfterInit ==
    /\ ~NeverServed =>
          /\ config # NoConfig
          /\ Len(sessions) = 1 /\ Opened(1)
          /\ ld.pc = "done"
          /\ initError = "none"
    /\ (main \notin {"start", "stat"} /\ ~detectPathType(argv, StatOf(argv)).ok) =>
          exit = "1" /\ NeverServed
    /\ (Len(sessions) >= 1 /\ sessions[1].state = "failed") => exit = "1" /\ NeverServed
    /\ initError \in {"none", "path", "connect"}
    /\ ld.pc = "done" => main = "serving"

C7_Witness ==
    /\ main = "serving"
    /\ resp.kind = "done"
    /\ Len(log[1].stmts) = 2 /\ log[1].stmts[2].res = "err"
    /\ exit = "running"

C7_WitnessConnectFailed ==
    /\ Len(sessions) = 1 /\ sessions[1].state = "failed"
    /\ exit = "1"

\* C8 (as claimed): once the close a signal handler asked for has come back,
\* whatever its outcome, the process has exited and no session is open.
C8_SignalClosesAndExits ==
    (sigs > 0 /\ \A i \in 1..Len(pending) : pending[i].who # "signal") =>
        /\ exit # "running"
        /\ \A s \in 1..Len(sessions) : sessions[s].state # "open"

\* C9: in directory mode loadData() returns whatever globs and registrations
\* fail: both patterns of every extension are globbed, and every extension
\* with files found has a registration issued, whatever happened to the
\* extensions before it.
C9_LoadDataTriesEveryExtension ==
    /\ ld.pc # "failed" /\ initError # "load"
    /\ (ld.pc = "done" /\ config.isDirectory) =>
          /\ main = "serving"
          /\ \A k \in 1..4 :
                /\ log[k].globs = 2
                /\ log[k].found > 0 => Len(log[k].stmts) >= 1

C9_Witness ==
    /\ ld.pc = "done" /\ config.isDirectory
    /\ Len(log[1].stmts) = 2 /\ log[1].stmts[2].res = "err"
    /\ dir[2] # {} /\ log[2].found = 0
    /\ log[3].stmts = <<[form |-> "glob", res |-> "ok"]>>
    /\ Len(log[4].stmts) = 2 /\ log[4].stmts[2].res = "ok"

LastOk(k) == log[k].stmts[Len(log[k].stmts)].res = "ok"

\* C10: a registration is issued for an extension exactly if the target is a
\* directory and a file of the extension was found; a database file target
\* gets no statement; and when the registration of every extension with files
\* succeeds, the session holds one view for each of them and no other.
C10_ViewPerExtensionWithFiles ==
    /\ \A k \in 1..4 :
          Len(log[k].stmts) > 0 <=>
              (config # NoConfig /\ config.isDirectory /\ log[k].found > 0)
    /\ (config # NoConfig /\ ~config.isDirectory) =>
          \A i \in 1..Len(pending) : pending[i].kind \notin {"run", "all"}
    /\ (ld.pc = "done" /\ \A k \in 1..4 : log[k].found > 0 => LastOk(k)) =>
          /\ Cardinality(sessions[1].views)
                = Cardinality({k \in 1..4 : log[k].found > 0})
          /\ \A k \in 1..4 :
                log[k].found > 0 <=>
                    \E v \in sessions[1].views :
                        v.name = <<"d", "_", "1", "_">> \o supportedExtensions[k]

C10_Witness ==
    /\ ld.pc = "done" /\ config.isDirectory
    /\ log[1].found = 2 /\ log[2].found = 0 /\ log[3].found = 1 /\ log[4].found = 0
    /\ LastOk(1) /\ LastOk(3)
    /\ Cardinality(sessions[1].views) = 2

C10_WitnessFile ==
    /\ ld.pc = "done" /\ ~config.isDirectory /\ main = "serving"

\* The view the session holds under the name of extension k, if any.
ViewsOf(k) ==
    {v \in sessions[1].views :
        v.name = generateTableName(config.path, supportedExtensions[k])}

\* C11: for an extension with files the bulk registration over the glob comes
\* first; the fallback (single-file form for one file, list form for more) is
\* issued exactly if the bulk registration failed; nothing follows a success;
\* and after a failed fallback the extension has no view.
C11_BulkThenFallback ==
    \A k \in 1..4 :
        LET s == log[k].stmts IN
        /\ Len(s) <= 2
        /\ Len(s) >= 1 => s[1].form = "glob"
        /\ Len(s) = 2 <=> (Len(s) >= 1 /\ s[1].res = "err")
        /\ Len(s) = 2 => s[2].form = (IF log[k].found = 1 THEN "file" ELSE "list")
        /\ \A i \in 1..Len(s) : s[i].res = "ok" => i = Len(s)
        /\ (Len(s) >= 1 /\ s[Len(s)].res = "ok") =>
               \E v \in ViewsOf(k) : v.def.form = s[Len(s)].form
        /\ (Len(s) >= 1 /\ s[Len(s)].res # "ok") => ViewsOf(k) = {}

C11_Witness ==
    /\ ld.pc = "done"
    /\ log[1].found = 2
    /\ log[1].stmts = <<[form |-> "glob", res |-> "err"], [form |-> "list", res |-> "ok"]>>
    /\ log[2].found = 1
    /\ log[2].stmts = <<[form |-> "glob", res |-> "err"], [form |-> "file", res |-> "err"]>>
    /\ log[3].stmts = <<[form |-> "glob", res |-> "ok"]>>
    /\ Cardinality(sessions[1].views) = 2

\* C12: during loadData() at most one registration is in flight, none while
\* the loader is globbing, and the extensions go in the order csv, parquet,
\* json, jsonl: an extension is globbed or registered only when every
\* extension before it has had both its globs and all its statements settled.
C12_LoaderSequential ==
    /\ Cardinality({i \in 1..Len(pending) : pending[i].who = "loader"}) <= 1
    /\ ld.pc = "glob" => \A i \in 1..Len(pending) : pending[i].who # "loader"
    /\ supportedExtensions = <<csv, parquet, json, jsonl>>
    /\ \A i \in 1..Len(pending) :
          pending[i].who = "loader" =>
              /\ ld.pc \in {"bulk", "fallback"}
              /\ pending[i].stmt.name
                     = generateTableName(config.path, supportedExtensions[ld.ext])
    /\ \A k \in 1..4 : \A j \in 1..4 :
          (k < j /\ (log[j].globs > 0 \/ Len(log[j].stmts) > 0)) =>
              /\ log[k].globs = 2
              /\ \A i \in 1..Len(log[k].stmts) : log[k].stmts[i].res # "pending"

C12_Witness ==
    /\ Len(log[1].stmts) = 2 /\ log[1].stmts[2].res = "err"
    /\ ld.pc = "fallback" /\ ld.ext = 2
    /\ \E i \in 1..Len(pending) : pending[i].who = "loader"

\* C16: validateQuery always resolves, whatever the statement and whether the
\* manager is connected, not connected or the engine fails: with valid true
\* exactly if the EXPLAIN statement succeeded, and otherwise with valid false
\* and an error text carrying the message of the failure.
C16_ValidateNeverFails ==
    ret.op = "validateQuery" =>
        /\ ret.state = "resolved"
        /\ Len(ret.rows) = 1
        /\ ret.rows[1].valid <=> ret.eng = NoErr
        /\ ret.rows[1].valid => DOMAIN ret.rows[1] = {"valid"}
        /\ ~ret.rows[1].valid =>
              Contains(ret.rows[1].error,
                       IF ret.eng = "none" THEN "Database not connected" ELSE ret.eng)

C16_Witness ==
    /\ ret.op = "validateQuery" /\ ret.eng \in EngineMsgs
    /\ ~ret.rows[1].valid
    /\ db # Null /\ sessions[db].state = "open"

C16_WitnessNotConnected ==
    /\ ret.op = "validateQuery" /\ ret.eng = "none"
    /\ ~ret.rows[1].valid
    /\ db = Null /\ Len(sessions) = 1 /\ sessions[1].state = "closed"

C16_WitnessValid ==
    /\ ret.op = "validateQuery" /\ ret.eng = NoErr
    /\ ret.rows[1].valid

\* C20: no tool answers from a cache: a call that comes back with a result has
\* sent every one of its statements to the engine during that call, a call
\* that sent none has failed before its first statement, the list get_tables
\* returns is the catalog of the session as it is at that call, and a
\* finished call leaves nothing behind in the tools: they hold the calls whose
\* query is in flight and nothing else.
C20_NoCaching ==
    resp.kind = "done" =>
        /\ Len(tool) = Cardinality({i \in 1..Len(pending) : pending[i].who = "tool"})
        /\ ~resp.outcome.threw =>
              resp.asked = (IF resp.req.name \in {"describe_table", "get_database_info"}
                            THEN 2 ELSE 1)
        /\ resp.asked = 0 =>
              /\ resp.outcome.threw
              /\ \/ resp.req.name = "no_such_tool"
                 \/ ~resp.req.hasArgs
                 \/ resp.sess = Null
        /\ (resp.req.name = "get_tables" /\ ~resp.outcome.threw) =>
              /\ Len(resp.outcome.val) = 1 + Cardinality(sessions[resp.sess].views)
              /\ \A v \in sessions[resp.sess].views :
                    \E i \in 2..Len(resp.outcome.val) : resp.outcome.val[i].name = v.name

C20_Witness ==
    /\ resp.kind = "done"
    /\ resp.req.name = "get_tables" /\ ~resp.outcome.threw
    /\ Len(resp.outcome.val) = 3
    /\ resp.outcome.val[2].type = "VIEW"
    /\ resp.outcome.val[3] = [name |-> <<"t">>, type |-> "TABLE"]

C20_WitnessTwoStatements ==
    /\ resp.kind = "done"
    /\ resp.req.name = "get_database_info" /\ ~resp.outcome.threw
    /\ resp.asked = 2

\* ------------------------------------------- claims about single functions
LettersAndDigits == Range(UpperChars) \cup Range(LowerChars) \cup Range(DigitChars)

\* C13: the view name is the base name of the directory with every character
\* that is not a letter or a digit turned into an underscore, then an
\* underscore, then the extension: as long as base name, underscore and
\* extension together, made of letters, digits and underscores only, the same
\* for every path with that base name, and different for another extension.
C13_ViewName ==
    fn.name = "generateTableName" =>
        LET b == basename(fn.args[1])
            e == fn.args[2]
            r == fn.result
        IN /\ Len(r) = Len(b) + 1 + Len(e)
           /\ \A i \in 1..Len(b) :
                 r[i] = IF b[i] \in LettersAndDigits THEN b[i] ELSE "_"
           /\ SubSeq(r, Len(b) + 1, Len(r)) = <<"_">> \o e
           /\ \A i \in 1..Len(r) : r[i] \in LettersAndDigits \cup {"_"}
           /\ generateTableName(b, e) = r
           /\ b # <<>> => generateTableName(<<"x", "/">> \o b \o <<"/">>, e) = r
           /\ \A k \in 1..4 :
                 supportedExtensions[k] # e => generateTableName(fn.args[1], supportedExtensions[k]) # r

C13_Witness ==
    /\ fn.name = "generateTableName"
    /\ fn.args = <<<<"/", "a", "-">>, csv>>
    /\ fn.result = <<"a", "_", "_", "c", "s", "v">>

\* What stat says of the path handed to detectPathType.
NotThere(stat) == stat \in {"ENOENT", "ENOTDIR"}

IsDbFile(p) == toLowerCase(extname(p)) \in {<<".", "d", "b">>, <<".", "d", "u", "c", "k", "d", "b">>,
                                            <<".", "s", "q", "l", "i", "t", "e">>}

\* C14 (as claimed): every path comes to one of four outcomes: a directory to
\* the directory config, a regular file with a database extension to the file
\* config, a regular file with another extension to the unsupported-file-type
\* error, a path that does not exist to the path-does-not-exist error.
C14_FourOutcomes ==
    fn.name = "detectPathType" =>
        LET p == fn.args[1]
            stat == fn.args[2]
            r == fn.result
        IN /\ stat = "dir" => r.ok /\ r.config = [path |-> p, isDirectory |-> TRUE, readonly |-> TRUE]
           /\ (stat = "file" /\ IsDbFile(p)) =>
                 r.ok /\ r.config = [path |-> p, isDirectory |-> FALSE, readonly |-> TRUE]
           /\ (stat = "file" /\ ~IsDbFile(p)) =>
                 ~r.ok /\ Contains(r.msg, "Unsupported file type: ")
           /\ NotThere(stat) => ~r.ok /\ Contains(r.msg, "Path does not exist: ")
           /\ \/ r.ok
              \/ Contains(r.msg, "Unsupported file type: ")
              \/ Contains(r.msg, "Path does not exist: ")

\* C14 (amended): the four outcomes, the path-does-not-exist error being that
\* of a stat failing with ENOENT; a path that is neither a directory nor a
\* regular file fails with the invalid-path error, and any other failure of
\* stat is passed on as it is.
C14_Classification ==
    fn.name = "detectPathType" =>
        LET p == fn.args[1]
            stat == fn.args[2]
            r == fn.result
        IN /\ stat = "dir" => r.ok /\ r.config = [path |-> p, isDirectory |-> TRUE, readonly |-> TRUE]
           /\ (stat = "file" /\ IsDbFile(p)) =>
                 r.ok /\ r.config = [path |-> p, isDirectory |-> FALSE, readonly |-> TRUE]
           /\ (stat = "file" /\ ~IsDbFile(p)) =>
                 ~r.ok /\ Contains(r.msg, "Unsupported file type: ")
           /\ stat = "ENOENT" => ~r.ok /\ r.msg = <<"Path does not exist: ">> \o p
           /\ stat = "other" => ~r.ok /\ r.msg = <<"Invalid path: ">> \o p
           /\ stat \notin {"dir", "file", "other", "ENOENT"} => ~r.ok /\ r.msg = <<stat>>
           /\ r.ok => r.config.path = p

C14_Witness ==
    /\ fn.name = "detectPathType"
    /\ fn.args = <<<<"a", ".", "D", "B">>, "file">>
    /\ fn.result.ok /\ ~fn.result.config.isDirectory

C14_WitnessOther ==
    /\ fn.name = "detectPathType"
    /\ fn.args[2] = "other"
    /\ Contains(fn.result.msg, "Invalid path: ")

\* C15: executeQuery gives no columns, no rows and rowCount 0 for an empty
\* engine result; otherwise the columns are the keys of the first engine row in
\* their order, rowCount is the number of engine rows, and row i has one cell
\* per column, cell c being the value engine row i has under column c.
C15_QueryResultShape ==
    fn.name = "executeQuery" =>
        LET rows == fn.args[1]
            r == fn.result
        IN IF Len(rows) = 0
           THEN r.columns = <<>> /\ r.rows = <<>> /\ r.rowCount = 0
           ELSE /\ Len(r.columns) = Len(rows[1])
                /\ \A c \in 1..Len(r.columns) : r.columns[c] = rows[1][c][1]
                /\ r.rowCount = Len(rows)
                /\ Len(r.rows) = Len(rows)
                /\ \A i \in 1..Len(rows) :
                      /\ Len(r.rows[i]) = Len(r.columns)
                      /\ \A c \in 1..Len(r.columns) :
                            \/ <<r.columns[c], r.rows[i][c]>> \in Range(rows[i])
                            \/ /\ r.rows[i][c] = Undefined
                               /\ \A j \in 1..Len(rows[i]) : rows[i][j][1] # r.columns[c]

C15_Witness ==
    /\ fn.name = "executeQuery"
    /\ Len(fn.args[1]) = 2
    /\ Keys(fn.args[1][1]) = <<"a", "b">>
    /\ fn.args[1][2] = <<<<"b", NullCell>>, <<"a", ZeroCell>>>>
    /\ fn.result.rows[2] = <<ZeroCell, NullCell>>

C15_WitnessEmpty ==
    /\ fn.name = "executeQuery"
    /\ fn.args[1] = <<>>
    /\ fn.result.rowCount = 0

\* The lines of a text that are of one kind.
LinesOf(text, kind) == {i \in 1..Len(text) : text[i].kind = kind}

\* C17 (as claimed): for every result and every limit below rowCount the text
\* of formatResults has the footer "... and K more rows" with K = rowCount -
\* limit; with no limit, or a limit of rowCount or more, it has no such footer.
C17_FooterIffLimitBelowRowCount ==
    fn.name = "formatResults" =>
        LET result == fn.args[1]
            limit == fn.args[2]
            text == fn.result
        IN IF limit.given /\ limit.n < result.rowCount
           THEN \E i \in LinesOf(text, "more") : text[i].k = result.rowCount - limit.n
           ELSE LinesOf(text, "more") = {}

\* The cells of the data rows of a text, blanks of the padding taken off.
RECURSIVE Trimmed(_)
Trimmed(str) ==
    IF Len(str) > 0 /\ str[Len(str)] = " " THEN Trimmed(SubSeq(str, 1, Len(str) - 1)) ELSE str

Min(a, b) == IF a <= b THEN a ELSE b

\* C18 (as claimed): the text of execute_query has min(limit, rowCount) data
\* rows, the first rows of the result in their order, for every limit the
\* caller gives, and for no limit given those of limit 100.
C18_RowsShown ==
    fn.name = "execute_query" =>
        LET args == fn.args[1]
            rows == fn.args[2]
            text == fn.result
            limit == IF "limit" \in DOMAIN args THEN args.limit ELSE 100
            shown == [i \in 1..Cardinality(LinesOf(text, "row")) |-> text[2 + i]]
        IN /\ Cardinality(LinesOf(text, "row")) = Min(limit, Len(rows))
           /\ \A i \in 1..Len(shown) :
                 /\ shown[i].kind = "row"
                 /\ \A c \in 1..Len(shown[i].cells) :
                       Trimmed(shown[i].cells[c]) = CellText(Get(rows[i], Keys(rows[1])[c]))

\* The labels of the field lines of record c in a text, in their order.
LabelsOf(text, c) ==
    LET idx == {i \in 1..Len(text) :
                   text[i].col = c /\ text[i].label \notin {"Column", "rule", "blank"}}
        RECURSIVE Pick(_)
        Pick(S) == IF S = {} THEN <<>>
                   ELSE LET m == CHOOSE x \in S : \A y \in S : x <= y
                        IN <<text[m].label>> \o Pick(S \ {m})
    IN Pick(idx)

\* Position of a label in the order Count, Null %, Unique, Min, Max, Avg, Std,
\* Q25, Median, Q75.
LabelRank(label) ==
    CHOOSE i \in 1..10 :
        <<"Count", "Null %", "Unique", "Min", "Max", "Avg", "Std", "Q25", "Median", "Q75">>[i]
            = label

FieldOfLabel(label) ==
    <<"count", "null_percentage", "approx_unique", "min", "max",
      "avg", "std", "q25", "q50", "q75">>[LabelRank(label)]

\* C19 (as claimed): formatSummary returns a text for every list of records,
\* whichever fields are present, absent or null: the placeholder for the
\* empty list, else one block per record in input order, a line in it only
\* for a field the record has, the lines in the order count, null %, unique,
\* min, max, avg, std, Q25, median, Q75.
C19_SummaryAlwaysText ==
    fn.name = "formatSummary" =>
        LET summary == fn.args[1]
            text == fn.result.val
        IN /\ ~fn.result.threw
           /\ Len(summary) = 0 => text = <<[col |-> 0, label |-> "No columns to summarize."]>>
           /\ Len(summary) > 0 =>
                 /\ \A i \in 1..Len(text) : text[i].col \in 0..Len(summary)
                 /\ \A i \in 1..Len(text) : \A j \in 1..Len(text) :
                       i < j => text[i].col <= text[j].col
                 /\ \A c \in 1..Len(summary) :
                       LET labels == LabelsOf(text, c)
                       IN /\ \E i \in 1..Len(text) : text[i].col = c /\ text[i].label = "Column"
                          /\ \A i \in 1..Len(labels) :
                                summary[c][FieldOfLabel(labels[i])] # "undefined"
                          /\ \A i \in 1..Len(labels) : \A j \in 1..Len(labels) :
                                i < j => LabelRank(labels[i]) < LabelRank(labels[j])

\* ------------------------------------------------ claims about the accessors
\* C21: getConfig() returns a new object whose fields equal those of the config
\* the manager was constructed with and changes nothing in the manager; an
\* assignment to a returned object leaves the manager's config as it was, so
\* a later getConfig() returns the same values again and a later connect()
\* opens the path and the access mode of the constructed config.
C21_GetConfigCopies ==
    [][/\ config' = config
       /\ Len(held') > Len(held) =>
             /\ held'[Len(held')].val = config
             /\ held'[Len(held')].ref # ConfigRef
             /\ \A j \in 1..Len(held) : held[j].ref # held'[Len(held')].ref
             /\ SubSeq(held', 1, Len(held)) = held
             /\ ManagerState' = ManagerState
       /\ Len(sessions') > Len(sessions) =>
             /\ sessions'[Len(sessions')].mode = AccessMode(config)
             /\ sessions'[Len(sessions')].path = DbPath(config)]_vars

C21_Witness ==
    /\ Len(held) = 2
    /\ held[1].val.isDirectory # config.isDirectory
    /\ held[1].val.path # config.path
    /\ held[2].val = config
    /\ Len(sessions) = 1 /\ sessions[1].state = "open"
    /\ sessions[1].mode = AccessMode(config)

\* The operation of the manager that makes an engine call of a kind.
OpOf(kind) ==
    IF kind = "open" THEN "connect" ELSE IF kind = "all" THEN "query"
    ELSE IF kind = "run" THEN "execute" ELSE "close"

\* C22: a call of connect, query, execute or close either hands one call to
\* the engine and stays unsettled, or settles at once without the engine (no
\* session held); the one callback of an engine call settles the operation
\* that made it exactly once, resolved if the engine reported no error and
\* rejected if it reported one, never thrown; and the call is then gone, so
\* nothing settles it again.
C22_SettlesOnceOneWay ==
    [][\/ /\ Len(pending') = Len(pending) + 1
          /\ SubSeq(pending', 1, Len(pending)) = pending
          /\ ret' = ret
       \/ /\ pending' = pending
          /\ ret'.tick # ret.tick
          /\ ret'.eng = "none" /\ db = Null
          /\ ret'.op \in {"query", "execute", "close"}
          /\ ret'.state \in {"resolved", "rejected"}
       \/ /\ \E i \in 1..Len(pending) :
                /\ pending' = Remove(pending, i)
                /\ ret'.op = OpOf(pending[i].kind)
          /\ ret'.tick # ret.tick
          /\ ret'.eng \in {NoErr} \cup EngineMsgs
          /\ ret'.eng = NoErr => ret'.state = "resolved"
          /\ ret'.eng # NoErr => ret'.state = "rejected"]_vars

C22_Witness ==
    /\ ret.op = "query" /\ ret.state = "rejected" /\ ret.eng \in EngineMsgs
    /\ Len(pending) = 1 /\ pending[1].kind = "close"
    /\ db # Null /\ sessions[db].state = "open"

C22_WitnessConnect ==
    /\ ret.op = "connect" /\ ret.state = "rejected" /\ ret.eng \in EngineMsgs
    /\ Len(sessions) = 2 /\ sessions[1].state = "open"

\* The manager holds a session that is open and usable.
HoldsOpenSession == db # Null /\ sessions[db].state = "open"

\* C23 (as claimed): isConnected() is true exactly when the manager holds a
\* usable open session: false on a new manager, false once a connect() has
\* failed, true once a connect() has succeeded, false once a close() has
\* succeeded (no call being in flight).
C23_IsConnectedIffOpen ==
    /\ sessions = <<>> => ~isConnected
    /\ pending = <<>> => (isConnected <=> HoldsOpenSession)

\* The calls of the engine's close on session s that are in flight.
ClosesInFlight(s) == {i \in 1..Len(pending) : pending[i].kind = "close" /\ pending[i].sess = s}

\* C24 (as claimed): the engine's close is invoked at most once for a session
\* that was opened, also when close() calls overlap: no open session has two
\* closes in flight, and none is in flight on a session closed already.
C24_EngineCloseOnce ==
    \A s \in 1..Len(sessions) :
        /\ sessions[s].state = "open" => Cardinality(ClosesInFlight(s)) <= 1
        /\ sessions[s].state = "closed" => ClosesInFlight(s) = {}

\* ------------------------------------------- claims about a second loadData
\* The views a set holds under the name of extension k.
NamedFor(views, k) ==
    {v \in views : v.name = generateTableName(config.path, supportedExtensions[k])}

\* The statements the second loadData() issued for extension k.
SecondStmts(k) ==
    SubSeq(log[k].stmts, Len(prev.log[k].stmts) + 1, Len(log[k].stmts))

\* The second loadData() got a statement through for extension k.
Registered(k) == \E i \in 1..Len(SecondStmts(k)) : SecondStmts(k)[i].res = "ok"

\* C25 (as claimed): a second loadData() on the same directory and session
\* never rejects, and when it has returned the session holds the views it
\* held after the first call, each as it was defined, and no other.
C25_ViewsSameAfterReload ==
    /\ ld.pc # "failed" /\ initError # "load"
    /\ (prev.again /\ ld.pc = "done") => sessions[1].views = prev.views

\* C25 (amended): a second loadData() on the same directory and session never
\* rejects; every view the first call registered stays as it was defined,
\* under a name no other view has, and no statement of the second call gets
\* through for its extension; when the call has returned, an extension that
\* had no view after the first call has one exactly if a registration of the
\* second call got through for it, and there is no other view.
C25_ReloadKeepsViews ==
    /\ ld.pc # "failed" /\ initError # "load"
    /\ prev.again =>
          /\ \A v \in prev.views : v \in sessions[1].views
          /\ \A v \in sessions[1].views : \A w \in sessions[1].views : v.name = w.name => v = w
          /\ \A k \in 1..4 : NamedFor(prev.views, k) # {} => ~Registered(k)
          /\ ld.pc = "done" =>
                /\ \A k \in 1..4 :
                      IF NamedFor(prev.views, k) # {}
                      THEN NamedFor(sessions[1].views, k) = NamedFor(prev.views, k)
                      ELSE NamedFor(sessions[1].views, k) # {} <=> Registered(k)
                /\ \A v \in sessions[1].views : \E k \in 1..4 : v \in NamedFor(sessions[1].views, k)

\* The second call has returned and added the view of an extension whose
\* registrations both failed in the first call, next to a view it kept.
C25_Witness ==
    /\ prev.again /\ ld.pc = "done"
    /\ \E v \in prev.views : v.name = <<"d", "_", "1", "_">> \o csv /\ v.def.form = "list"
    /\ NamedFor(prev.views, 2) = {} /\ prev.log[2].found = 1
    /\ Registered(2) /\ ~Registered(1)
    /\ Cardinality(sessions[1].views) = Cardinality(prev.views) + 1

\* The second call has returned and every registration it tried failed.
C25_WitnessUnchanged ==
    /\ prev.again /\ ld.pc = "done"
    /\ \E v \in prev.views : v.name = <<"d", "_", "1", "_">> \o csv /\ v.def.form = "list"
    /\ \E v \in prev.views : v.name = <<"d", "_", "1", "_">> \o json /\ v.def.form = "glob"
    /\ NamedFor(prev.views, 2) = {} /\ log[2].found = 1
    /\ Len(SecondStmts(1)) = 2 /\ Len(SecondStmts(2)) = 2 /\ Len(SecondStmts(3)) = 2
    /\ sessions[1].views = prev.views

\* ------------------------------------------------ claims about cell rendering
\* String(value) of a cell that is not null or missing; the empty text otherwise.
StringForm(cell) == IF cell.t \in {"null", "undefined"} THEN <<>> ELSE cell.v

\* C26 (as claimed): every displayed cell of formatResults that is not null
\* or missing shows the string form of its value, 0 included, and only a
\* null or missing cell shows as an empty cell.
C26_CellsShowTheirValue ==
    fn.name = "formatResults" =>
        LET result == fn.args[1]
            text == fn.result
        IN \A i \in LinesOf(text, "row") :
               \A c \in 1..Len(text[i].cells) :
                   /\ Trimmed(text[i].cells[c]) = StringForm(result.rows[i - 2][c])
                   /\ Trimmed(text[i].cells[c]) = <<>> =>
                         result.rows[i - 2][c].t \in {"null", "undefined"}

\* ------------------------------------------------ claims about the readonly flag
\* C27 (as claimed): the readonly flag in the answer of get_database_info is
\* true exactly if the session the tool asked was opened read-only.
C27_ReadonlyFlagIsAccessMode ==
    (resp.kind = "done" /\ resp.req.name = "get_database_info" /\ ~resp.outcome.threw) =>
        (resp.outcome.val[2].readonly <=> sessions[resp.sess].mode = "read_only")

====
